---- MODULE Spec2Model ----
(***************************************************************************)
(* Ephemeral token service and Gemini Live session proxy                   *)
(* (convex/tokens.ts).  The token store is the Convex table                *)
(* "ephemeralTokens", the session registry is the module-level map         *)
(* activeSessions.  Times are milliseconds, as Date.now() returns them.    *)
(***************************************************************************)
EXTENDS Integers, FiniteSets, Sequences, TLC

\* ---------------------------------------------------------------- constants
TOKEN_EXPIRATION_MINUTES == 60
MAX_SESSIONS_PER_TOKEN == 5
MAX_MESSAGES_PER_TOKEN == 1000
\* "* 60 * 1000": minutes to milliseconds
MS_PER_MINUTE == 60000
\* cleanupInactiveSessions: "15 * 60 * 1000", 15 minutes
TIMEOUT_MS == 900000
\* setupAutoRefresh: "5 * 60 * 1000", a token is renewed 5 minutes before it expires
REFRESH_MARGIN_MS == 300000

\* ------------------------------------------------------------------- bounds
\* the clock is read at the whole minutes below MaxMinutes, and once more
\* (one second after the last of them for the token service, at MaxMinutes
\* minutes for the proxy)
MaxMinutes == 2
\* usage counters are kept within 0..MaxUsed
MaxUsed == 3
\* refresh keeps expiresAt within -1..MaxExpiryMinutes minutes (it could extend for ever)
MaxExpiryMinutes == 3
\* payloads forwarded on one connection
MaxForwarded == 1
\* requests in flight at the same time
MaxCallers == 2
\* with requests in flight, usage counters are kept within 0..MaxRaceUsed
MaxRaceUsed == 4
\* the token manager is followed over MaxRenewals renewal dates
MaxRenewals == 2
\* calls of setTimeout by one token manager
MaxTimeouts == 3

\* ------------------------------------------------------------ input domains
\* token secrets generateSecureToken can produce (glt_<32 chars>_<timestamp>)
Secrets == {"glt_A"}
\* identities present in the "users" table
Users == {"u1", "u2"}
\* userId arguments of generateEphemeralToken: one known to the directory, one not
UserArgs == {"u1", "ghost"}
\* an optional argument: <<>> is undefined, <<v>> is the value v
Opt(S) == {<<>>} \cup {<<v>> : v \in S}
\* the instants at which the clock is read
Instants ==
    {m * MS_PER_MINUTE : m \in 0..(MaxMinutes - 1)}
        \cup {(MaxMinutes - 1) * MS_PER_MINUTE + 1000}
\* v.optional(v.number()) arguments of generateEphemeralToken
QuotaArgs == Opt({-1, 0, 2})
ExpirationArgs == Opt({-1, 0, 1})
\* v.optional(v.number()) arguments of updateTokenUsage and refreshEphemeralToken
IncrementArgs == Opt({-1, 1})
AdditionalArgs == Opt({-1, 0, 1})
\* the proxy is exercised with tokens of quota 2 that live one minute, at
\* the instants 0 and MaxMinutes minutes
ProxyQuotaArgs == {<<2>>}
ProxyInstants == {0, MaxMinutes * MS_PER_MINUTE}
\* the ephemeralToken field of a proxy request: missing, empty, or a secret
TokenArgs == Opt(Secrets \cup {""})
\* the registry is exercised at the start, when the idle timeout has just run
\* out for a session used at the start, and one millisecond later
SweepInstants == {0, TIMEOUT_MS, TIMEOUT_MS + 1}
\* the periodic reaper is followed from the start to past the idle timeout of
\* a session used one millisecond after the first timeout ran out
ReaperInstants == SweepInstants \cup {2 * TIMEOUT_MS + 2}
\* TokenStorage: the two localStorage keys of the client cache
TOKEN_KEY == "gemini_ephemeral_token"
TOKEN_INFO_KEY == "gemini_token_info"
StorageKeys == {TOKEN_KEY, TOKEN_INFO_KEY}
\* secrets and record ids of the tokens a client is handed
ClientSecrets == {"glt_A", "glt_B"}
TokenIdOf(t) == IF t = "glt_A" THEN "id_A" ELSE "id_B"
\* what generateEphemeralToken returns to the client: tokens with the default
\* quotas that expire one minute after the start
TokenInfos ==
    {[token |-> t, expiresAt |-> MS_PER_MINUTE, maxSessions |-> MAX_SESSIONS_PER_TOKEN,
      maxMessages |-> MAX_MESSAGES_PER_TOKEN, tokenId |-> TokenIdOf(t)] : t \in ClientSecrets}
\* the token manager is exercised when it is made, at the dates a timer set
\* for a token of the default lifetime is due (5 minutes before each hour
\* after the last renewal), and just after the first token has expired
ManagerInstants ==
    {k * (TOKEN_EXPIRATION_MINUTES * MS_PER_MINUTE - REFRESH_MARGIN_MS) : k \in 0..MaxRenewals}
        \cup {TOKEN_EXPIRATION_MINUTES * MS_PER_MINUTE + 1}
\* minutes the tokens handed to the manager live: the default, and less than
\* the renewal margin
LifetimeMinutes == {TOKEN_EXPIRATION_MINUTES, 4}
\* the expiry dates of such tokens
ManagerExpiries == {t + l * MS_PER_MINUTE : t \in ManagerInstants, l \in LifetimeMinutes}
\* the numbers that occur in the records of the cache
JsonNumbers ==
    UNION {{i.expiresAt, i.maxSessions, i.maxMessages} : i \in TokenInfos} \cup ManagerExpiries
\* a text is the sequence of its lexical elements; texts that are not the
\* JSON of a TokenInfo: a malformed one and the empty string
CorruptTexts == {<<"{", "invalid json", "}">>, <<>>}
\* which call on localStorage throws in a method that makes two: none, the
\* first (the second is then not made), the second
ThrowsAt == 0..2
\* (incrementSessions, incrementMessages) of concurrent updateTokenUsage calls
LedgerIncrements == {<< <<1>>, <<>> >>, << <<>>, <<2>> >>}
\* requests the proxy or the ledger serves at the same time
Callers == 1..MaxCallers
\* no request in flight
Idle == [pc |-> "idle", op |-> "", userId |-> "", tok |-> <<>>, sid |-> "",
         incS |-> 0, incM |-> 0, snap |-> <<>>]
\* session identifiers generateSessionId can produce (gemini-<time>-<random>)
SessionIds == {"gemini-1", "gemini-2"}
\* a sessionId for which no connection has been made
NoConnection == [status |-> "none", closeCalls |-> 0, forwarded |-> 0]

VARIABLES
    now,      \* Date.now()
    tokens,   \* table ephemeralTokens: secret -> record (index by_token)
    issued,   \* secrets generateSecureToken has returned so far
    sessions, \* activeSessions: sessionId -> GeminiSession
    conns,    \* the provider connection made for each sessionId
    result,   \* what the last operation returned or threw
    callers,  \* requests in flight, each at one of its awaits
    ledger,   \* per secret, the increments updateTokenUsage calls have committed,
              \* and how often such a call was re-run
    window,   \* typeof window !== 'undefined': the client code runs in a browser
    localStorage, \* the browser's localStorage: key -> <<>> (no item) or <<string>>
    manager   \* one AutoTokenManager: its refreshTimer, the timers it has pending,
              \* and where its asynchronous methods stand

tokenVars == <<tokens, issued>>
sessionVars == <<sessions, conns>>
raceVars == <<callers, ledger>>
clientVars == <<window, localStorage, manager>>
vars == <<now, tokens, issued, sessions, conns, result, callers, ledger, window, localStorage,
          manager>>

\* ------------------------------------------------------------------ helpers
\* JavaScript "a || d" on an optional number: undefined and 0 are falsy
OrDefault(a, d) == IF a = <<>> \/ a[1] = 0 THEN d ELSE a[1]
\* a default parameter "a = d": only undefined takes the default
ParamDefault(a, d) == IF a = <<>> THEN d ELSE a[1]
Max(a, b) == IF a >= b THEN a ELSE b

\* what an operation answered: a Convex function returns or throws, the HTTP
\* action responds with a status; n is the "cleaned" count of cleanupExpiredTokens
\* and the "count" of list_sessions, isActive and sessions are the body of
\* session_status and of list_sessions; for the client cache, info is the
\* TokenInfo passed or returned (<<>> is null), token the string getToken
\* returned ("" is null), valid the answer of isTokenValid, and warned holds
\* the messages the catch blocks that ran gave to console.warn; for generate,
\* info is what it returned; for ensureValidToken, n = 1 says generateToken was
\* called, and status "awaiting" that the method waits for it
Result(op, token, sid, status, error) ==
    [op |-> op, token |-> token, sid |-> sid, status |-> status, error |-> error, n |-> 0,
     isActive |-> FALSE, sessions |-> {}, info |-> <<>>, warned |-> {}, valid |-> FALSE]

HasToken(s) == s \in DOMAIN tokens
\* ctx.db.patch / insert / delete on the table
Patch(s, rec) == [t \in DOMAIN tokens |-> IF t = s THEN rec ELSE tokens[t]]
Insert(s, rec) == [t \in DOMAIN tokens \cup {s} |-> IF t = s THEN rec ELSE tokens[t]]
Delete(S) == [t \in DOMAIN tokens \ S |-> tokens[t]]

\* ------------------------------------------------------ TokenIssuer.generate
NewTokenRecord(userId, maxSessions, maxMessages, expirationMinutes) ==
    LET expirationTime == OrDefault(expirationMinutes, TOKEN_EXPIRATION_MINUTES)
        expiresAt == now + expirationTime * MS_PER_MINUTE
    IN  [userId |-> userId,
         expiresAt |-> expiresAt,
         sessionsUsed |-> 0,
         messagesUsed |-> 0,
         maxSessions |-> OrDefault(maxSessions, MAX_SESSIONS_PER_TOKEN),
         maxMessages |-> OrDefault(maxMessages, MAX_MESSAGES_PER_TOKEN),
         isActive |-> TRUE,
         createdAt |-> now,
         lastUsed |-> now,
         deactivatedAt |-> <<>>]

\* what generate returns: the secret, the id of the inserted record and the
\* expiry and quotas, computed again by the expressions that filled the record
Returned(s, rec) ==
    [token |-> s, expiresAt |-> rec.expiresAt, maxSessions |-> rec.maxSessions,
     maxMessages |-> rec.maxMessages, tokenId |-> TokenIdOf(s)]

\* the secret is 32 random characters and the clock: one never returned before
generateEphemeralToken(userId, maxSessions, maxMessages, expirationMinutes) ==
    IF userId \notin Users
    THEN /\ result' = Result("generate", "", "", "thrown", "User not found")
         /\ UNCHANGED tokenVars
    ELSE \E s \in Secrets \ issued :
            /\ tokens' = Insert(s, NewTokenRecord(userId, maxSessions, maxMessages,
                                                  expirationMinutes))
            /\ issued' = issued \cup {s}
            /\ result' = [Result("generate", s, "", "returned", "")
                             EXCEPT !.info = <<Returned(s, NewTokenRecord(userId, maxSessions,
                                                     maxMessages, expirationMinutes))>>]

\* ------------------------------------------------------------ TokenValidator
\* mutant: "Date.now() >= expiresAt", the token dies at its last instant
ExpiredAtDeadline(rec) == now >= rec.expiresAt

TokenExpired(rec) == now > rec.expiresAt

\* mutant: "sessionsUsed > maxSessions", one session too many
SessionLimitOffByOne(rec) == rec.sessionsUsed > rec.maxSessions
\* mutant: the session quota is not checked
SessionLimitIgnored(rec) == FALSE

SessionLimitExceeded(rec) == rec.sessionsUsed >= rec.maxSessions

\* mutant: "messagesUsed > maxMessages", one message too many
MessageLimitOffByOne(rec) == rec.messagesUsed > rec.maxMessages

MessageLimitExceeded(rec) == rec.messagesUsed >= rec.maxMessages

\* mutant: the expiry check moved in front of the isActive check
validateExpiryFirst(s) ==
    IF ~HasToken(s) THEN [isValid |-> FALSE, error |-> "Token not found"]
    ELSE IF TokenExpired(tokens[s]) THEN [isValid |-> FALSE, error |-> "Token expired"]
    ELSE IF ~tokens[s].isActive THEN [isValid |-> FALSE, error |-> "Token is deactivated"]
    ELSE IF SessionLimitExceeded(tokens[s])
         THEN [isValid |-> FALSE, error |-> "Session limit exceeded"]
    ELSE IF MessageLimitExceeded(tokens[s])
         THEN [isValid |-> FALSE, error |-> "Message limit exceeded"]
    ELSE [isValid |-> TRUE, error |-> ""]

validateEphemeralToken(s) ==
    IF ~HasToken(s) THEN [isValid |-> FALSE, error |-> "Token not found"]
    ELSE IF ~tokens[s].isActive THEN [isValid |-> FALSE, error |-> "Token is deactivated"]
    ELSE IF TokenExpired(tokens[s]) THEN [isValid |-> FALSE, error |-> "Token expired"]
    ELSE IF SessionLimitExceeded(tokens[s])
         THEN [isValid |-> FALSE, error |-> "Session limit exceeded"]
    ELSE IF MessageLimitExceeded(tokens[s])
         THEN [isValid |-> FALSE, error |-> "Message limit exceeded"]
    ELSE [isValid |-> TRUE, error |-> ""]

\* mutant: a validation that stamps lastUsed on the record it looked up
ValidateTouching(s) ==
    /\ result' = Result("validate", s, "",
                        IF validateEphemeralToken(s).isValid THEN "valid" ELSE "invalid",
                        validateEphemeralToken(s).error)
    /\ tokens' = IF HasToken(s) THEN Patch(s, [tokens[s] EXCEPT !.lastUsed = now]) ELSE tokens
    /\ UNCHANGED issued

Validate(s) ==
    /\ result' = Result("validate", s, "",
                        IF validateEphemeralToken(s).isValid THEN "valid" ELSE "invalid",
                        validateEphemeralToken(s).error)
    /\ UNCHANGED tokenVars

\* --------------------------------------------------------------- UsageLedger
UsagePatch(rec, incrementSessions, incrementMessages) ==
    [rec EXCEPT !.sessionsUsed = rec.sessionsUsed + incrementSessions,
                !.messagesUsed = rec.messagesUsed + incrementMessages,
                !.lastUsed = now]

InUsageBounds(rec) ==
    /\ rec.sessionsUsed \in 0..MaxUsed
    /\ rec.messagesUsed \in 0..MaxUsed

updateTokenUsage(s, incS, incM) ==
    IF ~HasToken(s)
    THEN /\ result' = Result("updateUsage", s, "", "thrown", "Token not found")
         /\ UNCHANGED tokenVars
    ELSE LET rec == UsagePatch(tokens[s], ParamDefault(incS, 0), ParamDefault(incM, 0))
         IN  /\ InUsageBounds(rec)
             /\ tokens' = Patch(s, rec)
             /\ result' = Result("updateUsage", s, "", "returned", "")
             /\ UNCHANGED issued

RefreshedExpiresAt(rec, additionalMinutes) ==
    Max(now + additionalMinutes * MS_PER_MINUTE,
        rec.expiresAt + additionalMinutes * MS_PER_MINUTE)

InExpiryBounds(expiresAt) ==
    /\ expiresAt >= -MS_PER_MINUTE
    /\ expiresAt <= MaxExpiryMinutes * MS_PER_MINUTE

\* mutant: the isActive check is missing, an inactive token is extended
refreshAnyToken(s, additional) ==
    IF ~HasToken(s)
    THEN /\ result' = Result("refresh", s, "", "thrown", "Token not found")
         /\ UNCHANGED tokenVars
    ELSE LET newExpiresAt ==
                 RefreshedExpiresAt(tokens[s],
                                    ParamDefault(additional, TOKEN_EXPIRATION_MINUTES))
         IN  /\ InExpiryBounds(newExpiresAt)
             /\ tokens' = Patch(s, [tokens[s] EXCEPT !.expiresAt = newExpiresAt,
                                                     !.lastUsed = now])
             /\ result' = Result("refresh", s, "", "returned", "")
             /\ UNCHANGED issued

refreshEphemeralToken(s, additional) ==
    IF ~HasToken(s)
    THEN /\ result' = Result("refresh", s, "", "thrown", "Token not found")
         /\ UNCHANGED tokenVars
    ELSE IF ~tokens[s].isActive
    THEN /\ result' = Result("refresh", s, "", "thrown", "Cannot refresh inactive token")
         /\ UNCHANGED tokenVars
    ELSE LET newExpiresAt ==
                 RefreshedExpiresAt(tokens[s],
                                    ParamDefault(additional, TOKEN_EXPIRATION_MINUTES))
         IN  /\ InExpiryBounds(newExpiresAt)
             /\ tokens' = Patch(s, [tokens[s] EXCEPT !.expiresAt = newExpiresAt,
                                                     !.lastUsed = now])
             /\ result' = Result("refresh", s, "", "returned", "")
             /\ UNCHANGED issued

\* mutant: the flag is toggled instead of cleared
DeactivateToggle(rec) == [rec EXCEPT !.isActive = ~rec.isActive, !.deactivatedAt = <<now>>]

DeactivatePatch(rec) == [rec EXCEPT !.isActive = FALSE, !.deactivatedAt = <<now>>]

deactivateEphemeralToken(s) ==
    IF ~HasToken(s)
    THEN /\ result' = Result("deactivate", s, "", "thrown", "Token not found")
         /\ UNCHANGED tokenVars
    ELSE /\ tokens' = Patch(s, DeactivatePatch(tokens[s]))
         /\ result' = Result("deactivate", s, "", "returned", "")
         /\ UNCHANGED issued

\* mutant: "q.lte", a token is swept at its last valid instant
ExpiredAtDeadlineOrInactive(rec) == rec.expiresAt <= now \/ rec.isActive = FALSE

ExpiredOrInactive(rec) == rec.expiresAt < now \/ rec.isActive = FALSE

cleanupExpiredTokens ==
    LET expiredTokens == {s \in DOMAIN tokens : ExpiredOrInactive(tokens[s])}
    IN  /\ tokens' = Delete(expiredTokens)
        /\ result' = [Result("cleanupExpired", "", "", "returned", "")
                         EXCEPT !.n = Cardinality(expiredTokens)]
        /\ UNCHANGED issued

\* ---------------------------------------------------------- SessionRegistry
HasSession(sid) == sid \in DOMAIN sessions
Register(sid, rec) ==
    [x \in DOMAIN sessions \cup {sid} |-> IF x = sid THEN rec ELSE sessions[x]]
Unregister(sid) == [x \in DOMAIN sessions \ {sid} |-> sessions[x]]

\* "if (ephemeralToken)": undefined and the empty string are falsy
Presented(tok) == tok # <<>> /\ tok[1] # ""

\* mutant: the usage is counted twice
MeteredTwice(tok, incS, incM) ==
    IF ~Presented(tok) THEN tokens
    ELSE Patch(tok[1], UsagePatch(tokens[tok[1]], 2 * incS, 2 * incM))

\* the token table after updateTokenUsage(s, incS, incM), run by the proxy
Metered(tok, incS, incM) ==
    IF ~Presented(tok) THEN tokens ELSE Patch(tok[1], UsagePatch(tokens[tok[1]], incS, incM))

\* mutant: only a token the table does not hold is refused
RejectsOnlyUnknown(tok) == Presented(tok) /\ ~HasToken(tok[1])

\* "if (ephemeralToken)" followed by "if (!tokenValidation.isValid)"
Rejected(tok) == Presented(tok) /\ ~validateEphemeralToken(tok[1]).isValid

\* mutant: a session marked inactive still takes messages
AbsentOnly(sid) == ~HasSession(sid)

\* "!sessionData || !sessionData.isActive"
AbsentOrInactive(sid) == ~HasSession(sid) \/ ~sessions[sid].isActive

NewSession(userId) ==
    [userId |-> userId, isActive |-> TRUE, createdAt |-> now, lastActivity |-> now]

\* action=create_session; connects says whether ai.live.connect resolved
create_session(userId, tok, connects) ==
    IF userId = ""
    THEN /\ result' = Result("create_session", "", "", "400", "userId is required")
         /\ UNCHANGED <<tokenVars, sessionVars>>
    ELSE IF Rejected(tok)
    THEN /\ result' = Result("create_session", tok[1], "", "403",
                             validateEphemeralToken(tok[1]).error)
         /\ UNCHANGED <<tokenVars, sessionVars>>
    ELSE /\ Presented(tok) => InUsageBounds(UsagePatch(tokens[tok[1]], 1, 0))
         /\ tokens' = Metered(tok, 1, 0)
         /\ UNCHANGED issued
         /\ IF connects
            THEN \E sid \in {x \in SessionIds : conns[x].status = "none"} :
                    /\ conns' = [conns EXCEPT ![sid].status = "open"]
                    /\ sessions' = Register(sid, NewSession(userId))
                    /\ result' = Result("create_session", IF tok = <<>> THEN "" ELSE tok[1],
                                        sid, "200", "")
            ELSE /\ UNCHANGED sessionVars
                 /\ result' = Result("create_session", IF tok = <<>> THEN "" ELSE tok[1],
                                     "", "500", "Failed to create session")

\* what the connection has been asked to carry after one send of this type
Forward(conn, messageType) ==
    IF messageType \in {"text", "audio"}
    THEN [conn EXCEPT !.forwarded = conn.forwarded + 1]
    ELSE conn

\* action=send_message; sends says whether the connection's send returned
send_message(sid, messageType, tok, sends) ==
    IF sid = ""
    THEN /\ result' = Result("send_message", "", "", "400", "sessionId is required")
         /\ UNCHANGED <<tokenVars, sessionVars>>
    ELSE IF AbsentOrInactive(sid)
    THEN /\ result' = Result("send_message", IF tok = <<>> THEN "" ELSE tok[1], sid, "404",
                             "Session not found or inactive")
         /\ UNCHANGED <<tokenVars, sessionVars>>
    ELSE IF Rejected(tok)
    THEN /\ result' = Result("send_message", tok[1], sid, "403",
                             validateEphemeralToken(tok[1]).error)
         /\ UNCHANGED <<tokenVars, sessionVars>>
    ELSE /\ Presented(tok) => InUsageBounds(UsagePatch(tokens[tok[1]], 0, 1))
         /\ tokens' = Metered(tok, 0, 1)
         /\ UNCHANGED issued
         /\ IF sends
            THEN /\ Forward(conns[sid], messageType).forwarded <= MaxForwarded
                 /\ conns' = [conns EXCEPT ![sid] = Forward(conns[sid], messageType)]
                 /\ sessions' = [sessions EXCEPT ![sid].lastActivity = now]
                 /\ result' = Result("send_message", IF tok = <<>> THEN "" ELSE tok[1],
                                     sid, "200", "")
            ELSE /\ messageType \in {"text", "audio"}
                 /\ UNCHANGED sessionVars
                 /\ result' = Result("send_message", IF tok = <<>> THEN "" ELSE tok[1],
                                     sid, "500", "Failed to send message")

\* mutant: the session is left in the map
StaysRegistered(sid) == sessions

\* close_session: "activeSessions.delete(sessionId)"
Removed(sid) == Unregister(sid)

\* geminiConnection.close(): the call is counted; it closes unless it throws
Close(conn, closes) ==
    [conn EXCEPT !.closeCalls = conn.closeCalls + 1,
                 !.status = IF closes THEN "closed" ELSE conn.status]

\* action=close_session; closes says whether geminiConnection.close() returned
close_session(sid, closes) ==
    IF sid = ""
    THEN /\ result' = Result("close_session", "", "", "400", "sessionId is required")
         /\ UNCHANGED <<tokenVars, sessionVars>>
    ELSE /\ result' = Result("close_session", "", sid, "200", "")
         /\ UNCHANGED tokenVars
         /\ IF HasSession(sid)
            THEN /\ conns' = [conns EXCEPT ![sid] = Close(conns[sid], closes)]
                 /\ sessions' = Removed(sid)
            ELSE /\ closes
                 /\ UNCHANGED sessionVars

\* action=session_status: "sessionData?.isActive || false"
session_status(sid) ==
    /\ result' = IF sid = ""
                 THEN Result("session_status", "", "", "400", "sessionId is required")
                 ELSE [Result("session_status", "", sid, "200", "")
                          EXCEPT !.isActive = HasSession(sid) /\ sessions[sid].isActive]
    /\ UNCHANGED <<tokenVars, sessionVars>>

\* action=list_sessions: every value of the map, active or not
list_sessions ==
    /\ result' = [Result("list_sessions", "", "", "200", "")
                     EXCEPT !.n = Cardinality(DOMAIN sessions),
                            !.sessions = {[sessionId |-> sid,
                                           userId |-> sessions[sid].userId,
                                           isActive |-> sessions[sid].isActive,
                                           createdAt |-> sessions[sid].createdAt,
                                           lastActivity |-> sessions[sid].lastActivity]
                                          : sid \in DOMAIN sessions}]
    /\ UNCHANGED <<tokenVars, sessionVars>>

\* ------------------------------------------------------- provider callbacks
\* the callbacks given to ai.live.connect close over the sessionId; the provider
\* calls them for a connection it has made
onmessage(sid) ==
    /\ conns[sid].status # "none"
    /\ sessions' = IF HasSession(sid)
                   THEN [sessions EXCEPT ![sid].lastActivity = now]
                   ELSE sessions
    /\ result' = Result("onmessage", "", sid, "", "")
    /\ UNCHANGED <<tokenVars, conns>>

\* mutant: the error callback drops the session from the map
RemovedOnError(sid) == Unregister(sid)

\* "sessionData.isActive = false" when the map has the session
MarkedInactive(sid) ==
    IF HasSession(sid) THEN [sessions EXCEPT ![sid].isActive = FALSE] ELSE sessions

onerror(sid) ==
    /\ conns[sid].status # "none"
    /\ sessions' = MarkedInactive(sid)
    /\ result' = Result("onerror", "", sid, "", "")
    /\ UNCHANGED <<tokenVars, conns>>

\* the provider reports that the connection is closed
onclose(sid) ==
    /\ conns[sid].status # "none"
    /\ conns' = [conns EXCEPT ![sid].status = "closed"]
    /\ sessions' = Unregister(sid)
    /\ result' = Result("onclose", "", sid, "", "")
    /\ UNCHANGED tokenVars

\* --------------------------------------------------------- InactivityReaper
\* mutant: a session is evicted at the very instant its timeout runs out
IdleAtTimeout(rec) == now - rec.lastActivity >= TIMEOUT_MS

\* mutant: the reaper passes over the sessions that onerror marked inactive
IdleAndActive(rec) == now - rec.lastActivity > TIMEOUT_MS /\ rec.isActive

IdleTooLong(rec) == now - rec.lastActivity > TIMEOUT_MS

\* mutant: "activeSessions.delete" moved into the try block, after close()
EvictedUnlessThrown(idle, throwing) ==
    [sid \in DOMAIN sessions \ (idle \ throwing) |-> sessions[sid]]

\* "activeSessions.delete(sessionId)" for every idle session
Evicted(idle, throwing) == [sid \in DOMAIN sessions \ idle |-> sessions[sid]]

\* one run of the interval callback; throwing are the sessions whose
\* geminiConnection.close() throws, n counts the evicted sessions
cleanupInactiveSessions(throwing) ==
    LET idle == {sid \in DOMAIN sessions : IdleTooLong(sessions[sid])}
        closing == {sid \in idle : sessions[sid].isActive}
    IN  /\ throwing \subseteq closing
        /\ conns' = [sid \in SessionIds |->
                        IF sid \in closing
                        THEN Close(conns[sid], sid \notin throwing)
                        ELSE conns[sid]]
        /\ sessions' = Evicted(idle, throwing)
        /\ result' = [Result("cleanupInactiveSessions", "", "", "", "")
                         EXCEPT !.n = Cardinality(idle)]
        /\ UNCHANGED tokenVars

\* ------------------------------------------------------------ TokenStorage
\* localStorage.setItem / removeItem
setItem(store, key, value) == [store EXCEPT ![key] = <<value>>]
removeItem(store, key) == [store EXCEPT ![key] = <<>>]

\* JSON.stringify(tokenInfo): the properties in the order of the object
\* literal, numbers as their decimal text
JSON_stringify(info) ==
    <<"{", "token", info.token, "expiresAt", ToString(info.expiresAt),
      "maxSessions", ToString(info.maxSessions), "maxMessages", ToString(info.maxMessages),
      "tokenId", info.tokenId, "}">>

IsNumberText(str) == \E n \in JsonNumbers : ToString(n) = str
NumberOf(str) == CHOOSE n \in JsonNumbers : ToString(n) = str

\* JSON.parse(text) returns an object with the five properties
ParsesToInfo(text) ==
    /\ Len(text) = 12
    /\ <<text[1], text[2], text[4], text[6], text[8], text[10], text[12]>>
          = <<"{", "token", "expiresAt", "maxSessions", "maxMessages", "tokenId", "}">>
    /\ IsNumberText(text[5]) /\ IsNumberText(text[7]) /\ IsNumberText(text[9])

JSON_parse(text) ==
    [token |-> text[3], expiresAt |-> NumberOf(text[5]), maxSessions |-> NumberOf(text[7]),
     maxMessages |-> NumberOf(text[9]), tokenId |-> text[11]]

\* mutant: storeToken writes the token and forgets the info
StoredTokenOnly(tokenInfo, throwsAt) ==
    IF ~window \/ throwsAt = 1 THEN localStorage
    ELSE setItem(localStorage, TOKEN_KEY, tokenInfo.token)

\* localStorage after storeToken: the two setItem calls, up to the one that throws
Stored(tokenInfo, throwsAt) ==
    IF ~window \/ throwsAt = 1 THEN localStorage
    ELSE IF throwsAt = 2 THEN setItem(localStorage, TOKEN_KEY, tokenInfo.token)
    ELSE setItem(setItem(localStorage, TOKEN_KEY, tokenInfo.token),
                 TOKEN_INFO_KEY, JSON_stringify(tokenInfo))

storeToken(tokenInfo, throwsAt) ==
    /\ localStorage' = Stored(tokenInfo, throwsAt)
    /\ result' = [Result("storeToken", "", "", "returned", "")
                     EXCEPT !.info = <<tokenInfo>>,
                            !.warned = IF window /\ throwsAt # 0
                                       THEN {"Failed to store ephemeral token:"}
                                       ELSE {}]

\* what getToken returns ("" is null); throws says whether getItem throws
TokenRead(throws) ==
    IF ~window \/ throws \/ localStorage[TOKEN_KEY] = <<>> THEN "" ELSE localStorage[TOKEN_KEY][1]

\* getToken; throws says whether localStorage.getItem throws
getToken(throws) ==
    /\ result' = [Result("getToken", "", "", "returned", "")
                     EXCEPT !.token = TokenRead(throws),
                            !.warned = IF window /\ throws
                                       THEN {"Failed to retrieve ephemeral token:"}
                                       ELSE {}]
    /\ UNCHANGED localStorage

\* mutant: clearToken removes the info and leaves the token
ClearedInfoOnly(throwsAt) ==
    IF ~window \/ throwsAt # 0 THEN localStorage
    ELSE removeItem(localStorage, TOKEN_INFO_KEY)

\* localStorage after clearToken: the two removeItem calls, up to the one that throws
Cleared(throwsAt) ==
    IF ~window \/ throwsAt = 1 THEN localStorage
    ELSE IF throwsAt = 2 THEN removeItem(localStorage, TOKEN_KEY)
    ELSE removeItem(removeItem(localStorage, TOKEN_KEY), TOKEN_INFO_KEY)

\* what the catch block of clearToken logs
ClearWarnings(throwsAt) ==
    IF window /\ throwsAt # 0 THEN {"Failed to clear ephemeral token:"} ELSE {}

clearToken(throwsAt) ==
    /\ localStorage' = Cleared(throwsAt)
    /\ result' = [Result("clearToken", "", "", "returned", "")
                     EXCEPT !.warned = ClearWarnings(throwsAt)]

\* "Date.now() > info.expiresAt"
InfoExpired(info) == now > info.expiresAt

\* getTokenInfo: what it returns, what its catch blocks log, and localStorage
\* afterwards; throws says whether getItem throws, clearThrowsAt which
\* removeItem of a clearToken it calls does
TokenInfoRead(throws, clearThrowsAt) ==
    LET item == localStorage[TOKEN_INFO_KEY]
    IN  IF ~window
        THEN [info |-> <<>>, warned |-> {}, store |-> localStorage]
        ELSE IF throws
        THEN [info |-> <<>>,
              warned |-> {"Failed to retrieve token info:"} \cup ClearWarnings(clearThrowsAt),
              store |-> Cleared(clearThrowsAt)]
        ELSE IF item = <<>> \/ item[1] = <<>>
        THEN [info |-> <<>>, warned |-> {}, store |-> localStorage]
        ELSE IF ~ParsesToInfo(item[1])
        THEN [info |-> <<>>,
              warned |-> {"Failed to retrieve token info:"} \cup ClearWarnings(clearThrowsAt),
              store |-> Cleared(clearThrowsAt)]
        ELSE IF InfoExpired(JSON_parse(item[1]))
        THEN [info |-> <<>>, warned |-> ClearWarnings(clearThrowsAt),
              store |-> Cleared(clearThrowsAt)]
        ELSE [info |-> <<JSON_parse(item[1])>>, warned |-> {}, store |-> localStorage]

getTokenInfo(throws, clearThrowsAt) ==
    /\ localStorage' = TokenInfoRead(throws, clearThrowsAt).store
    /\ result' = [Result("getTokenInfo", "", "", "returned", "")
                     EXCEPT !.info = TokenInfoRead(throws, clearThrowsAt).info,
                            !.warned = TokenInfoRead(throws, clearThrowsAt).warned]

\* isTokenValid: "tokenInfo !== null && Date.now() < tokenInfo.expiresAt"
isTokenValid(throws, clearThrowsAt) ==
    LET read == TokenInfoRead(throws, clearThrowsAt)
    IN  /\ localStorage' = read.store
        /\ result' = [Result("isTokenValid", "", "", "returned", "")
                         EXCEPT !.valid = read.info # <<>> /\ now < read.info[1].expiresAt,
                                !.warned = read.warned]

\* ---------------------------------------------------------- AutoTokenManager
\* a manager as its constructor leaves it: refreshTimer is null, no timer is
\* pending, no method is running.  timers are the timeouts of the event loop
\* that are set and have neither fired nor been cleared, each with the
\* tokenInfo its callback closes over; renewals are the callbacks waiting for
\* refreshToken; timeouts counts the setTimeout calls (the handles are 1, 2, ...);
\* last tells what the last renewal callback did since ensureValidToken was
\* called or returned a token: "renewed", or in its catch block "cleared" the cache or, when the
\* storage threw, "kept" some of it; destroyed tells that destroy() has been
\* called
NoManager ==
    [pc |-> "idle", refreshTimer |-> <<>>, timers |-> {}, renewals |-> {}, timeouts |-> 0,
     last |-> "", destroyed |-> FALSE]

\* what generateToken can resolve with now
GeneratedInfos ==
    {[token |-> t, expiresAt |-> now + l * MS_PER_MINUTE,
      maxSessions |-> MAX_SESSIONS_PER_TOKEN, maxMessages |-> MAX_MESSAGES_PER_TOKEN,
      tokenId |-> TokenIdOf(t)] : t \in ClientSecrets, l \in LifetimeMinutes}

\* what refreshToken(token) resolves with now: the token, and a new expiry
Refreshed(token) ==
    [token |-> token, expiresAt |-> now + TOKEN_EXPIRATION_MINUTES * MS_PER_MINUTE]

\* mutant: a token is requested whatever the cache holds
NeedsTokenAlways(info) == TRUE

\* "!tokenInfo || Date.now() > tokenInfo.expiresAt"
NeedsToken(info) == info = <<>> \/ now > info[1].expiresAt

\* clearTimeout(handle): no effect on a timer that has fired or was cleared
ClearTimeout(timers, handle) ==
    IF handle = <<>> THEN timers ELSE {tm \in timers : tm.id # handle[1]}

\* setupAutoRefresh(tokenInfo) on the manager m
setupAutoRefresh(m, tokenInfo) ==
    LET cleared == ClearTimeout(m.timers, m.refreshTimer)
        refreshTime == tokenInfo.expiresAt - now - REFRESH_MARGIN_MS
        handle == m.timeouts + 1
    IN  IF refreshTime > 0
        THEN [m EXCEPT !.timers = cleared \cup {[id |-> handle, due |-> now + refreshTime,
                                                 tokenInfo |-> tokenInfo]},
                       !.refreshTimer = <<handle>>,
                       !.timeouts = handle]
        ELSE [m EXCEPT !.timers = cleared]

\* "if (!this.refreshTimer) { this.setupAutoRefresh(tokenInfo); }"
Scheduled(m, tokenInfo) ==
    IF m.refreshTimer = <<>> THEN setupAutoRefresh(m, tokenInfo) ELSE m

\* ensureValidToken up to "await this.generateToken()", or to its return when
\* getTokenInfo gave a token
EnsureBegin(throws, clearThrowsAt) ==
    LET read == TokenInfoRead(throws, clearThrowsAt)
    IN  /\ manager.pc = "idle"
        /\ localStorage' = read.store
        /\ IF NeedsToken(read.info)
           THEN /\ manager' = [manager EXCEPT !.pc = "generating", !.last = ""]
                /\ result' = [Result("ensureValidToken", "", "", "awaiting", "")
                                 EXCEPT !.warned = read.warned]
           ELSE /\ manager' = [Scheduled(manager, read.info[1]) EXCEPT !.last = ""]
                /\ manager'.timeouts <= MaxTimeouts
                /\ result' = [Result("ensureValidToken", read.info[1].token, "", "returned", "")
                                 EXCEPT !.info = read.info, !.warned = read.warned]

\* generateToken has resolved with tokenInfo: ensureValidToken stores it,
\* schedules and returns; n = 1 says that generateToken was called
EnsureResolve(tokenInfo, throwsAt) ==
    /\ manager.pc = "generating"
    /\ localStorage' = Stored(tokenInfo, throwsAt)
    /\ manager' = [Scheduled(manager, tokenInfo) EXCEPT !.pc = "idle", !.last = ""]
    /\ manager'.timeouts <= MaxTimeouts
    /\ result' = [Result("ensureValidToken", tokenInfo.token, "", "returned", "")
                     EXCEPT !.info = <<tokenInfo>>, !.n = 1,
                            !.warned = IF window /\ throwsAt # 0
                                       THEN {"Failed to store ephemeral token:"}
                                       ELSE {}]

\* generateToken has rejected, and so does ensureValidToken
EnsureReject ==
    /\ manager.pc = "generating"
    /\ manager' = [manager EXCEPT !.pc = "idle"]
    /\ result' = [Result("ensureValidToken", "", "", "thrown", "generateToken rejected")
                     EXCEPT !.n = 1]
    /\ UNCHANGED localStorage

\* a timer that is due fires: its callback runs up to
\* "await this.refreshToken(currentToken)", or to its end without a token
TimerFires(id, throws) ==
    \E tm \in manager.timers :
        /\ tm.id = id
        /\ tm.due <= now
        /\ manager' = [manager EXCEPT
                          !.timers = @ \ {tm},
                          !.renewals = IF TokenRead(throws) = "" THEN @
                                       ELSE @ \cup {[id |-> id, tokenInfo |-> tm.tokenInfo,
                                                     currentToken |-> TokenRead(throws)]}]
        /\ result' = [Result("renewal", TokenRead(throws), "",
                             IF TokenRead(throws) = "" THEN "returned" ELSE "awaiting", "")
                         EXCEPT !.warned = IF window /\ throws
                                           THEN {"Failed to retrieve ephemeral token:"}
                                           ELSE {}]
        /\ UNCHANGED localStorage

\* the TokenInfo the callback builds from what refreshToken resolved with
RenewedInfo(r) ==
    [token |-> Refreshed(r.currentToken).token,
     expiresAt |-> Refreshed(r.currentToken).expiresAt,
     maxSessions |-> r.tokenInfo.maxSessions,
     maxMessages |-> r.tokenInfo.maxMessages,
     tokenId |-> r.tokenInfo.tokenId]

\* refreshToken has resolved: the callback stores the renewed token and
\* schedules the next renewal
RenewResolve(id, throwsAt) ==
    \E r \in manager.renewals :
        /\ r.id = id
        /\ localStorage' = Stored(RenewedInfo(r), throwsAt)
        /\ manager' = [setupAutoRefresh([manager EXCEPT !.renewals = @ \ {r}], RenewedInfo(r))
                          EXCEPT !.last = "renewed"]
        /\ manager'.timeouts <= MaxTimeouts
        /\ result' = [Result("renewal", r.currentToken, "", "returned", "")
                         EXCEPT !.info = <<RenewedInfo(r)>>,
                                !.warned = IF window /\ throwsAt # 0
                                           THEN {"Failed to store ephemeral token:"}
                                           ELSE {}]

\* mutant: the catch block logs the error and leaves the cache as it is
FailedKeepsToken(throwsAt) == localStorage

\* the catch block of the callback: "TokenStorage.clearToken()"
Failed(throwsAt) == Cleared(throwsAt)

\* refreshToken has rejected: the callback ends in its catch block
RenewReject(id, throwsAt) ==
    \E r \in manager.renewals :
        /\ r.id = id
        /\ localStorage' = Failed(throwsAt)
        /\ manager' = [manager EXCEPT
                          !.renewals = @ \ {r},
                          !.last = IF ClearWarnings(throwsAt) = {} THEN "cleared" ELSE "kept"]
        /\ result' = [Result("renewal", r.currentToken, "", "failed", "Failed to refresh token:")
                         EXCEPT !.warned = ClearWarnings(throwsAt)]

\* destroy():
\* "if (this.refreshTimer) { clearTimeout(this.refreshTimer); this.refreshTimer = null; }"
destroy ==
    /\ manager' = [manager EXCEPT !.timers = ClearTimeout(@, manager.refreshTimer),
                                  !.refreshTimer = <<>>,
                                  !.destroyed = TRUE]
    /\ result' = Result("destroy", "", "", "returned", "")
    /\ UNCHANGED localStorage

\* ------------------------------------------- requests that run concurrently
\* The HTTP action and the Convex functions are async: at every await another
\* request can run.  ctx.runQuery and ctx.runMutation each run one Convex
\* function; a mutation is re-run by Convex when a record it read was written
\* between its read and its commit.
SetCaller(c, rec) == [callers EXCEPT ![c] = rec]

\* mutant: the mutation commits whatever it computed from the record it read
CommitsBlindly(c) == TRUE

\* the record the mutation read is still the stored one
ReadSetUnchanged(c) ==
    /\ HasToken(callers[c].tok[1])
    /\ tokens[callers[c].tok[1]] = callers[c].snap[1]

InRaceBounds(rec) ==
    /\ rec.sessionsUsed \in 0..MaxRaceUsed
    /\ rec.messagesUsed \in 0..MaxRaceUsed

\* create_session up to "await ctx.runQuery(validateEphemeralToken)"
BeginCreate(c, userId, tok) ==
    /\ callers[c].pc = "idle"
    /\ callers' = SetCaller(c,
          IF Rejected(tok) THEN Idle
          ELSE [Idle EXCEPT !.pc = IF tok = <<>> THEN "connect" ELSE "meter",
                            !.op = "create_session", !.tok = tok, !.userId = userId,
                            !.incS = 1])
    /\ UNCHANGED <<now, tokenVars, sessionVars, result, ledger, clientVars>>

\* send_message up to "await request.json()": the session is looked up first
BeginSend(c, sid) ==
    /\ callers[c].pc = "idle"
    /\ callers' = SetCaller(c,
          IF AbsentOrInactive(sid) THEN Idle
          ELSE [Idle EXCEPT !.pc = "body", !.op = "send_message", !.sid = sid])
    /\ UNCHANGED <<now, tokenVars, sessionVars, result, ledger, clientVars>>

\* send_message from the parsed body up to "await ctx.runQuery(validateEphemeralToken)"
ValidateSend(c, tok) ==
    /\ callers[c].pc = "body"
    /\ callers' = SetCaller(c,
          IF Rejected(tok) THEN Idle
          ELSE [callers[c] EXCEPT !.pc = IF tok = <<>> THEN "forward" ELSE "meter",
                                  !.tok = tok, !.incM = 1])
    /\ UNCHANGED <<now, tokenVars, sessionVars, result, ledger, clientVars>>

\* a client calls the mutation updateTokenUsage itself
BeginUpdate(c, s, incS, incM) ==
    /\ callers[c].pc = "idle"
    /\ callers' = SetCaller(c, [Idle EXCEPT !.pc = "meter", !.op = "updateUsage",
                                            !.tok = <<s>>,
                                            !.incS = ParamDefault(incS, 0),
                                            !.incM = ParamDefault(incM, 0)])
    /\ UNCHANGED <<now, tokenVars, sessionVars, result, ledger, clientVars>>

\* updateTokenUsage: "await ctx.db.query(...).first()"
MutationRead(c) ==
    /\ callers[c].pc = "meter"
    /\ callers' = SetCaller(c,
          IF HasToken(callers[c].tok[1])
          THEN [callers[c] EXCEPT !.pc = "commit", !.snap = <<tokens[callers[c].tok[1]]>>]
          ELSE Idle)
    /\ UNCHANGED <<now, tokenVars, sessionVars, result, ledger, clientVars>>

\* updateTokenUsage: "await ctx.db.patch(...)" and the commit of the mutation
MutationCommit(c) ==
    /\ callers[c].pc = "commit"
    /\ IF ReadSetUnchanged(c)
       THEN LET s == callers[c].tok[1]
                rec == UsagePatch(callers[c].snap[1], callers[c].incS, callers[c].incM)
            IN  /\ InRaceBounds(rec)
                /\ tokens' = Patch(s, rec)
                /\ ledger' = [ledger EXCEPT
                                 ![s].sessions = ledger[s].sessions + callers[c].incS,
                                 ![s].messages = ledger[s].messages + callers[c].incM]
                /\ callers' = SetCaller(c,
                      IF callers[c].op = "create_session"
                      THEN [callers[c] EXCEPT !.pc = "connect", !.snap = <<>>]
                      ELSE IF callers[c].op = "send_message"
                      THEN [callers[c] EXCEPT !.pc = "forward", !.snap = <<>>]
                      ELSE Idle)
       ELSE /\ callers' = SetCaller(c, [callers[c] EXCEPT !.pc = "meter", !.snap = <<>>])
            /\ ledger' = [ledger EXCEPT ![callers[c].tok[1]].reruns = @ + 1]
            /\ UNCHANGED tokens
    /\ UNCHANGED <<now, issued, sessionVars, result, clientVars>>

\* create_session from "await createGeminiConnection" to the response
FinishCreate(c, connects) ==
    /\ callers[c].pc = "connect"
    /\ IF connects
       THEN \E sid \in {x \in SessionIds : conns[x].status = "none"} :
               /\ conns' = [conns EXCEPT ![sid].status = "open"]
               /\ sessions' = Register(sid, NewSession(callers[c].userId))
       ELSE UNCHANGED sessionVars
    /\ callers' = SetCaller(c, Idle)
    /\ UNCHANGED <<now, tokenVars, result, ledger, clientVars>>

\* create_session inside "await createGeminiConnection": ai.live.connect has
\* made the connection for the sessionId, and the provider can call the
\* callbacks from now on; the handler has not resumed yet
OpenConnection(c, connects) ==
    /\ callers[c].pc = "connect"
    /\ IF connects
       THEN \E sid \in {x \in SessionIds : conns[x].status = "none"} :
               /\ conns' = [conns EXCEPT ![sid].status = "open"]
               /\ callers' = SetCaller(c, [callers[c] EXCEPT !.pc = "register", !.sid = sid])
       ELSE /\ callers' = SetCaller(c, Idle)
            /\ UNCHANGED conns
    /\ UNCHANGED <<now, tokenVars, sessions, result, ledger, clientVars>>

\* create_session resumes after the await: "activeSessions.set(sessionId, ...)"
RegisterSession(c) ==
    /\ callers[c].pc = "register"
    /\ sessions' = Register(callers[c].sid, NewSession(callers[c].userId))
    /\ callers' = SetCaller(c, Idle)
    /\ UNCHANGED <<now, tokenVars, conns, result, ledger, clientVars>>

\* send_message from the send on the connection to the response
FinishSend(c, messageType, sends) ==
    /\ callers[c].pc = "forward"
    /\ IF sends
       THEN /\ Forward(conns[callers[c].sid], messageType).forwarded <= MaxForwarded
            /\ conns' = [conns EXCEPT ![callers[c].sid] = Forward(@, messageType)]
            /\ sessions' = IF HasSession(callers[c].sid)
                           THEN [sessions EXCEPT ![callers[c].sid].lastActivity = now]
                           ELSE sessions
       ELSE /\ messageType \in {"text", "audio"}
            /\ UNCHANGED sessionVars
    /\ callers' = SetCaller(c, Idle)
    /\ UNCHANGED <<now, tokenVars, result, ledger, clientVars>>

\* ------------------------------------------------------------------- clock
\* time passes between two operations; result describes the last step only
Tick(instants) ==
    /\ \E t \in instants : t > now /\ now' = t
    /\ result' = Result("tick", "", "", "", "")
    /\ UNCHANGED <<tokenVars, sessionVars, raceVars, clientVars>>

\* ------------------------------------------------------------------ claims
\* C1: in every state reachable by run-to-completion operations every stored
\* token has sessionsUsed <= maxSessions and messagesUsed <= maxMessages.
C1_QuotaInvariant ==
    \A s \in DOMAIN tokens :
        /\ tokens[s].sessionsUsed <= tokens[s].maxSessions
        /\ tokens[s].messagesUsed <= tokens[s].maxMessages

\* C2: with MaxCallers requests presenting one token at the same time, each
\* validating and then metering in two steps, a counter never exceeds its
\* quota by more than one unit per concurrent caller.
C2_OverrunBounded ==
    \A s \in DOMAIN tokens :
        /\ tokens[s].sessionsUsed <= tokens[s].maxSessions + MaxCallers
        /\ tokens[s].messagesUsed <= tokens[s].maxMessages + MaxCallers

\* two requests that both validated before either metered have overrun the quota
C2_Witness ==
    \E s \in DOMAIN tokens :
        /\ tokens[s].sessionsUsed > tokens[s].maxSessions
        /\ ledger[s].sessions = tokens[s].sessionsUsed

\* C3: the stored counters are the initial values (zero) plus the sum of the
\* increments of all updateUsage calls that completed: no increment is lost.
C3_NoLostUpdate ==
    \A s \in DOMAIN tokens :
        /\ tokens[s].sessionsUsed = ledger[s].sessions
        /\ tokens[s].messagesUsed = ledger[s].messages

\* an updateUsage call had to be re-run because another one committed after it
\* had read the record, and both increments are in the stored counters
C3_Witness ==
    \E s \in DOMAIN tokens :
        /\ ledger[s].reruns >= 1
        /\ ledger[s].sessions >= 1 /\ ledger[s].messages >= 2
        /\ tokens[s].sessionsUsed = ledger[s].sessions
        /\ tokens[s].messagesUsed = ledger[s].messages
        /\ \A c \in Callers : callers[c].pc = "idle"

\* the five checks of the validator, as the specification lists them
RecordExists(s) == s \in DOMAIN tokens
StillActive(s) == tokens[s].isActive
NotExpired(s) == now <= tokens[s].expiresAt
SessionsLeft(s) == tokens[s].sessionsUsed < tokens[s].maxSessions
MessagesLeft(s) == tokens[s].messagesUsed < tokens[s].maxMessages

\* C4: validate answers with the reason of the first failing check in the order
\* NotFound, Deactivated, Expired, SessionQuotaExceeded, MessageQuotaExceeded,
\* and with isValid = true exactly when all five checks pass.
C4_FirstFailureWins ==
    result.op = "validate" =>
        LET s == result.token
        IN  IF ~RecordExists(s) THEN result.error = "Token not found"
            ELSE /\ ~StillActive(s) => result.error = "Token is deactivated"
                 /\ StillActive(s) /\ ~NotExpired(s) => result.error = "Token expired"
                 /\ StillActive(s) /\ NotExpired(s) /\ ~SessionsLeft(s)
                        => result.error = "Session limit exceeded"
                 /\ StillActive(s) /\ NotExpired(s) /\ SessionsLeft(s) /\ ~MessagesLeft(s)
                        => result.error = "Message limit exceeded"
                 /\ (result.status = "valid") <=>
                        (StillActive(s) /\ NotExpired(s) /\ SessionsLeft(s) /\ MessagesLeft(s))
                 /\ (result.status = "valid") <=> (result.error = "")

\* a token both deactivated and expired has been validated
C4_Witness ==
    /\ result.op = "validate"
    /\ RecordExists(result.token)
    /\ ~StillActive(result.token)
    /\ ~NotExpired(result.token)
    /\ result.error = "Token is deactivated"

\* a token over both quotas has been validated
C4_WitnessBothQuotas ==
    /\ result.op = "validate"
    /\ RecordExists(result.token)
    /\ StillActive(result.token) /\ NotExpired(result.token)
    /\ ~SessionsLeft(result.token) /\ ~MessagesLeft(result.token)
    /\ result.error = "Session limit exceeded"

\* the token a step's request presented is otherwise valid before the step
PresentedUsable(s) == RecordExists(s) /\ StillActive(s) /\ NotExpired(s)

\* connections the provider has opened so far
Opened == {sid \in SessionIds : conns[sid].status # "none"}

\* C5: while a token of maxSessions = N is active, unexpired and within its
\* message quota, a createSession presenting it is admitted as long as fewer than
\* N were admitted before (it registers one session and counts one unit), and
\* the next one fails with SessionQuotaExceeded and registers no session.
C5_SessionQuota ==
    [][(result'.op = "create_session" /\ result'.token # ""
           /\ PresentedUsable(result'.token) /\ MessagesLeft(result'.token))
          => IF tokens[result'.token].sessionsUsed < tokens[result'.token].maxSessions
             THEN /\ result'.status \in {"200", "500"}
                  /\ tokens'[result'.token].sessionsUsed
                        = tokens[result'.token].sessionsUsed + 1
                  /\ result'.status = "500" => result'.error = "Failed to create session"
                  /\ result'.status = "200" =>
                        /\ result'.sid \notin DOMAIN sessions
                        /\ DOMAIN sessions' = DOMAIN sessions \cup {result'.sid}
                        /\ sessions'[result'.sid].isActive
             ELSE /\ result'.status = "403"
                  /\ result'.error = "Session limit exceeded"
                  /\ UNCHANGED <<tokens, sessions, conns>>]_vars

\* N = 2 sessions were opened with the token and the third request is refused
C5_Witness ==
    /\ result.op = "create_session"
    /\ result.error = "Session limit exceeded"
    /\ RecordExists(result.token)
    /\ tokens[result.token].maxSessions = 2
    /\ tokens[result.token].sessionsUsed = 2
    /\ Cardinality(Opened) = 2

\* C6: while a token of maxMessages = N is active, unexpired and has sessions
\* left, a sendMessage presenting it on an open session is admitted as long as
\* fewer than N were admitted before (it counts one unit), and the next one
\* fails with MessageQuotaExceeded and forwards nothing.
C6_MessageQuota ==
    [][(result'.op = "send_message" /\ result'.token # ""
           /\ HasSession(result'.sid) /\ sessions[result'.sid].isActive
           /\ PresentedUsable(result'.token) /\ SessionsLeft(result'.token))
          => IF tokens[result'.token].messagesUsed < tokens[result'.token].maxMessages
             THEN /\ result'.status \in {"200", "500"}
                  /\ tokens'[result'.token].messagesUsed
                        = tokens[result'.token].messagesUsed + 1
                  /\ result'.status = "500" => result'.error = "Failed to send message"
             ELSE /\ result'.status = "403"
                  /\ result'.error = "Message limit exceeded"
                  /\ UNCHANGED <<tokens, sessions, conns>>]_vars

\* N = 2 messages were sent with the token and the third is refused
C6_Witness ==
    /\ result.op = "send_message"
    /\ result.error = "Message limit exceeded"
    /\ RecordExists(result.token)
    /\ tokens[result.token].maxMessages = 2
    /\ tokens[result.token].messagesUsed = 2
    /\ HasSession(result.sid)

\* C7: for an existing active token validate reports Expired exactly when
\* now > expiresAt; at now = expiresAt the token is still accepted, quotas permitting.
C7_ExpiredIffPastDeadline ==
    (result.op = "validate" /\ RecordExists(result.token) /\ StillActive(result.token)) =>
        /\ (result.error = "Token expired") <=> (now > tokens[result.token].expiresAt)
        /\ (now = tokens[result.token].expiresAt /\ SessionsLeft(result.token)
               /\ MessagesLeft(result.token)) => result.status = "valid"

\* a token is validated at the very instant it expires, and accepted
C7_Witness ==
    /\ result.op = "validate"
    /\ RecordExists(result.token)
    /\ now = tokens[result.token].expiresAt
    /\ result.status = "valid"

\* a token whose expiresAt is one second in the past is validated, and refused
C7_WitnessPast ==
    /\ result.op = "validate"
    /\ RecordExists(result.token)
    /\ now = tokens[result.token].expiresAt + 1000
    /\ result.status = "invalid" /\ result.error = "Token expired"

\* C8: a refresh that succeeds never decreases the token's expiresAt, whatever
\* additionalMinutes it is given.
C8_RefreshNeverShortens ==
    [][(result'.op = "refresh" /\ result'.status = "returned")
          => tokens'[result'.token].expiresAt >= tokens[result'.token].expiresAt]_vars

\* C9: deactivate on a token that is already inactive succeeds and leaves the
\* record as the first call left it (same isActive, same deactivatedAt).
C9_DeactivateIdempotent ==
    [][(result'.op = "deactivate" /\ RecordExists(result'.token)
          /\ ~StillActive(result'.token))
          => (result'.status = "returned" /\ tokens' = tokens)]_vars

\* C10: once a record's isActive is false no later operation sets it back to true.
C10_InactiveForEver ==
    [][\A s \in DOMAIN tokens \cap DOMAIN tokens' :
          ~tokens[s].isActive => ~tokens'[s].isActive]_vars

\* an inactive record has been through a later operation (a refused refresh)
C10_Witness ==
    /\ result.op = "refresh"
    /\ result.error = "Cannot refresh inactive token"
    /\ RecordExists(result.token)
    /\ ~StillActive(result.token)

\* the reason the validator gives for the token s: that of the first of
\* its five checks that fails, none when all pass
ValidatorReason(s) ==
    IF ~RecordExists(s) THEN "Token not found"
    ELSE IF ~StillActive(s) THEN "Token is deactivated"
    ELSE IF ~NotExpired(s) THEN "Token expired"
    ELSE IF ~SessionsLeft(s) THEN "Session limit exceeded"
    ELSE IF ~MessagesLeft(s) THEN "Message limit exceeded"
    ELSE ""

C12_SendToMissingSession ==
    [][(result'.op = "send_message" /\ result'.sid # ""
           /\ (result'.sid \notin DOMAIN sessions \/ ~sessions[result'.sid].isActive))
          => /\ result'.status = "404"
             /\ result'.error = "Session not found or inactive"
             /\ UNCHANGED <<tokens, sessions, conns>>]_vars

\* a message presenting a valid, unused token was sent to a session the
\* provider's error callback had marked inactive
C12_Witness ==
    /\ result.op = "send_message"
    /\ result.status = "404"
    /\ result.token # ""
    /\ ValidatorReason(result.token) = ""
    /\ HasSession(result.sid)
    /\ ~sessions[result.sid].isActive
    /\ tokens[result.token].messagesUsed = 0
    /\ conns[result.sid].forwarded = 0

\* C14: closeSession(sessionId) answers success whether or not the registry
\* holds the session, the session is absent afterwards, a closeSession of an
\* absent session changes nothing, and no connection has close invoked twice.
C14_CloseIdempotent ==
    [][(result'.op = "close_session" /\ result'.sid # "")
          => /\ result'.status = "200"
             /\ result'.sid \notin DOMAIN sessions'
             /\ result'.sid \notin DOMAIN sessions => UNCHANGED <<tokens, sessions, conns>>
             /\ \A sid \in SessionIds : conns'[sid].closeCalls <= 1
             /\ \A sid \in SessionIds \ {result'.sid} : conns'[sid] = conns[sid]]_vars

\* closeSession of a session the provider had already closed: it succeeds and
\* close was never invoked on the connection
C14_Witness ==
    /\ result.op = "close_session"
    /\ result.status = "200"
    /\ result.sid \notin DOMAIN sessions
    /\ conns[result.sid].status = "closed"
    /\ conns[result.sid].closeCalls = 0

\* C15: a reaper sweep removes exactly the sessions with
\* now - lastActivity > timeout and leaves the others as they were; getStatus
\* reports isActive = true only for a session the registry holds as active, so
\* false for a removed one, and listSessions lists the registry and nothing else.
C15_ReaperEvictsIdle ==
    [][/\ result'.op = "cleanupInactiveSessions" =>
             /\ DOMAIN sessions' =
                   {sid \in DOMAIN sessions : ~(now - sessions[sid].lastActivity > TIMEOUT_MS)}
             /\ \A sid \in DOMAIN sessions' : sessions'[sid] = sessions[sid]
             /\ result'.n = Cardinality(DOMAIN sessions \ DOMAIN sessions')
       /\ (result'.op = "session_status" /\ result'.sid # "") =>
             /\ result'.status = "200"
             /\ result'.isActive =
                   (result'.sid \in DOMAIN sessions /\ sessions[result'.sid].isActive)
       /\ result'.op = "list_sessions" =>
             /\ {r.sessionId : r \in result'.sessions} = DOMAIN sessions
             /\ result'.n = Cardinality(DOMAIN sessions)]_vars

\* one millisecond past the timeout of a session last used at the start, a
\* sweep has removed it and kept the session that was used since
C15_Witness ==
    /\ result.op = "cleanupInactiveSessions"
    /\ result.n = 1
    /\ now = TIMEOUT_MS + 1
    /\ \E sid \in DOMAIN sessions : sessions[sid].lastActivity = TIMEOUT_MS
    /\ \E sid \in SessionIds \ DOMAIN sessions :
          conns[sid].status = "closed" /\ conns[sid].closeCalls = 1

\* C16: onError keeps the session in the registry and marks it inactive; an
\* inactive session stays listed and inactive, and refuses sendMessage with
\* NotFound, until onClosed, closeSession or the reaper removes it; onClosed
\* leaves the session absent.
C16_ErrorMarksInactive ==
    [][/\ result'.op = "onerror" =>
             /\ DOMAIN sessions' = DOMAIN sessions
             /\ \A sid \in DOMAIN sessions :
                   sessions'[sid] = IF sid = result'.sid
                                    THEN [sessions[sid] EXCEPT !.isActive = FALSE]
                                    ELSE sessions[sid]
       /\ result'.op = "onclose" => result'.sid \notin DOMAIN sessions'
       /\ \A sid \in DOMAIN sessions :
             ~sessions[sid].isActive =>
                IF sid \in DOMAIN sessions'
                THEN ~sessions'[sid].isActive
                ELSE result'.op \in {"onclose", "close_session", "cleanupInactiveSessions"}
       /\ (result'.op = "send_message" /\ result'.sid \in DOMAIN sessions
              /\ ~sessions[result'.sid].isActive) => result'.status = "404"
       /\ result'.op = "list_sessions" =>
             \A sid \in DOMAIN sessions :
                \E r \in result'.sessions :
                   r.sessionId = sid /\ r.isActive = sessions[sid].isActive]_vars

\* after onError, listSessions still shows the session, as inactive
C16_Witness ==
    /\ result.op = "list_sessions"
    /\ \E r \in result.sessions :
          /\ ~r.isActive
          /\ conns[r.sessionId].status = "open"
          /\ conns[r.sessionId].closeCalls = 0

\* C17: however closeSession, onClosed and reaper sweeps follow one another,
\* each leaves the session it acts on absent from the registry, closeSession
\* answers success also when another path removed the session first, and close
\* is invoked at most once on every connection.
C17_RemovalPathsConverge ==
    [][/\ \A sid \in SessionIds : conns'[sid].closeCalls <= 1
       /\ (result'.op = "close_session" /\ result'.sid # "") =>
             result'.status = "200" /\ result'.sid \notin DOMAIN sessions'
       /\ result'.op = "onclose" => result'.sid \notin DOMAIN sessions'
       /\ result'.op = "cleanupInactiveSessions" =>
             \A sid \in DOMAIN sessions :
                now - sessions[sid].lastActivity > TIMEOUT_MS => sid \notin DOMAIN sessions'
       /\ result'.op \in {"close_session", "onclose", "cleanupInactiveSessions"} =>
             \A sid \in SessionIds \ DOMAIN sessions :
                conns'[sid].closeCalls = conns[sid].closeCalls]_vars

\* past the timeout, a sweep finds nothing to evict: closeSession had closed
\* the only session, which took no message, and removed it
C17_Witness ==
    /\ result.op = "cleanupInactiveSessions"
    /\ result.n = 0
    /\ now > TIMEOUT_MS
    /\ sessions = << >>
    /\ \E sid \in SessionIds :
          /\ conns[sid].status = "closed"
          /\ conns[sid].closeCalls = 1
          /\ conns[sid].forwarded = 0

\* the record the info item of the cache holds, if its text is one
CachedRecord ==
    IF localStorage[TOKEN_INFO_KEY] # <<>> /\ ParsesToInfo(localStorage[TOKEN_INFO_KEY][1])
    THEN <<JSON_parse(localStorage[TOKEN_INFO_KEY][1])>>
    ELSE <<>>

\* C18: in a browser whose storage took the write, store(info) with
\* info.expiresAt after now, followed immediately by getInfo(), returns a
\* record equal to info, and followed by getToken() returns info.token.
C18_StoreThenGetInfo ==
    [][(result.op = "storeToken" /\ window /\ result.warned = {}
           /\ result.info[1].expiresAt > now)
          => /\ (result'.op = "getTokenInfo" /\ result'.warned = {})
                   => result'.info = result.info
             /\ (result'.op = "getToken" /\ result'.warned = {})
                   => result'.token = result.info[1].token]_vars

\* getInfo has returned the record of the cached token before its expiry
C18_Witness ==
    /\ result.op = "getTokenInfo"
    /\ result.info # <<>>
    /\ result.info[1] \in TokenInfos
    /\ result.info[1].expiresAt > now
    /\ localStorage[TOKEN_KEY] = <<result.info[1].token>>
    /\ CachedRecord = result.info

\* C19: getInfo never returns a record whose expiresAt is before now; when the
\* cached record is expired and the storage takes the removals, getInfo returns
\* absent and leaves both items of the cache absent, and getToken of a cache
\* without token item returns absent.
C19_ExpiredInfoClearsCache ==
    [][/\ result'.op = "getTokenInfo" =>
             /\ result'.info # <<>> => ~(result'.info[1].expiresAt < now)
             /\ (window /\ CachedRecord # <<>> /\ CachedRecord[1].expiresAt < now)
                   => /\ result'.info = <<>>
                      /\ result'.warned = {} => \A k \in StorageKeys : localStorage'[k] = <<>>
       /\ (result'.op = "getToken" /\ localStorage[TOKEN_KEY] = <<>>)
             => result'.token = ""]_vars

\* getInfo met an expired record and returned absent; the token item is gone
\* (the removal of the info item threw)
C19_Witness ==
    /\ result.op = "getTokenInfo"
    /\ result.info = <<>>
    /\ result.warned = {"Failed to clear ephemeral token:"}
    /\ CachedRecord # <<>>
    /\ CachedRecord[1].expiresAt < now
    /\ localStorage[TOKEN_KEY] = <<>>

\* the info item holds a text that JSON.parse does not accept
Unparsable ==
    /\ localStorage[TOKEN_INFO_KEY] # <<>>
    /\ ~ParsesToInfo(localStorage[TOKEN_INFO_KEY][1])

\* C20: store, getToken, getInfo and isValid never raise, whatever the storage
\* throws; when the info item is unparsable or the storage throws on the read,
\* getInfo returns absent and isValid false; and an unparsable item is cleared
\* with the token (unless the removal itself throws).
C20_CorruptionIsAbsence ==
    [][/\ result'.op \in {"storeToken", "getToken", "getTokenInfo", "isTokenValid"}
             => result'.status = "returned"
       /\ (window /\ result'.op \in {"getTokenInfo", "isTokenValid"}
              /\ (Unparsable \/ "Failed to retrieve token info:" \in result'.warned))
             => result'.info = <<>> /\ ~result'.valid
       /\ (window /\ result'.op \in {"getTokenInfo", "isTokenValid"} /\ Unparsable
              /\ "Failed to clear ephemeral token:" \notin result'.warned)
             => \A k \in StorageKeys : localStorage'[k] = <<>>]_vars

\* the cached token is missing or expired
NoUsableToken == CachedRecord = <<>> \/ now > CachedRecord[1].expiresAt

\* C21: ensureValidToken calls generate exactly when no token is cached or the
\* cached one is expired, and then stores and returns the token generate gave;
\* with an unexpired token in the cache it returns that token and calls nothing.
\* (Where the storage throws, the cache counts as unreadable or unwritten.)
C21_GeneratesWhenNeeded ==
    [][result'.op = "ensureValidToken" =>
          IF manager.pc = "idle"
          THEN "Failed to retrieve token info:" \notin result'.warned =>
                  /\ (result'.status = "awaiting") <=> NoUsableToken
                  /\ ~NoUsableToken =>
                        /\ result'.status = "returned"
                        /\ result'.n = 0
                        /\ result'.info = CachedRecord
                        /\ result'.token = CachedRecord[1].token
                        /\ localStorage' = localStorage
          ELSE /\ result'.n = 1
               /\ result'.status = "returned" =>
                     /\ result'.info[1] \in GeneratedInfos
                     /\ result'.token = result'.info[1].token
                     /\ (window /\ result'.warned = {}) =>
                           /\ CachedRecord' = result'.info
                           /\ localStorage'[TOKEN_KEY] = <<result'.token>>]_vars

\* ensureValidToken has returned the unexpired token of the cache, without
\* calling generate
C21_Witness ==
    /\ result.op = "ensureValidToken"
    /\ result.status = "returned"
    /\ result.n = 0
    /\ result.info = CachedRecord
    /\ result.info[1].expiresAt >= now

\* ensureValidToken has stored and returned a generated token, in place of one
\* that had expired
C21_WitnessGenerated ==
    /\ result.op = "ensureValidToken"
    /\ result.status = "returned"
    /\ result.n = 1
    /\ CachedRecord = result.info
    /\ now > TOKEN_EXPIRATION_MINUTES * MS_PER_MINUTE

\* C22: at most one renewal timer is pending at any time; when ensureValidToken
\* returns a token that expires more than the margin from now, and when a
\* renewal has succeeded with such a token, exactly one timer is pending, due
\* at the margin before that token's expiresAt, whatever renewals came before.
C22_OneTimerBeforeExpiry ==
    [][/\ Cardinality(manager'.timers) <= 1
       /\ (result'.op \in {"ensureValidToken", "renewal"}
              /\ result'.status = "returned"
              /\ result'.info # <<>>
              /\ result'.info[1].expiresAt - now > REFRESH_MARGIN_MS)
             => \E tm \in manager'.timers :
                   /\ manager'.timers = {tm}
                   /\ tm.due = result'.info[1].expiresAt - REFRESH_MARGIN_MS]_vars

\* C23: when the refresh call of a renewal fails, the cached token is cleared
\* and nothing is left that would renew on its own (no timer pending, no
\* refresh under way); the next ensureValidToken calls generate, and stores
\* the token it gets.
C23_FailedRenewalClears ==
    [][/\ (result'.op = "renewal" /\ result'.status = "failed") =>
             /\ (window /\ result'.warned = {}) =>
                   \A k \in StorageKeys : localStorage'[k] = <<>>
             /\ manager'.timers = {}
             /\ manager'.renewals = {}
       /\ (result'.op = "ensureValidToken" /\ manager.pc = "idle"
              /\ manager.last = "cleared") =>
             /\ result'.status = "awaiting"
             /\ manager'.pc = "generating"
       /\ (result'.op = "ensureValidToken" /\ manager.pc = "generating"
              /\ result'.status = "returned" /\ window /\ result'.warned = {}) =>
             /\ CachedRecord' = result'.info
             /\ localStorage'[TOKEN_KEY] = <<result'.token>>]_vars

\* a renewal has failed in the browser: the cache that held the token is
\* empty, no timer is pending
C23_Witness ==
    /\ result.op = "renewal"
    /\ result.status = "failed"
    /\ result.token # ""
    /\ window
    /\ manager.last = "cleared"
    /\ manager.timers = {}
    /\ \A k \in StorageKeys : localStorage[k] = <<>>

\* C24: cleanupExpired deletes exactly the records that are expired or
\* inactive and leaves the active unexpired ones as they were, returns the
\* number it deleted, and run again at once deletes nothing and returns 0.
C24_CleanupExact ==
    [][result'.op = "cleanupExpired" =>
          /\ \A s \in DOMAIN tokens :
                (s \in DOMAIN tokens') <=> (StillActive(s) /\ NotExpired(s))
          /\ \A s \in DOMAIN tokens' : s \in DOMAIN tokens /\ tokens'[s] = tokens[s]
          /\ result'.n = Cardinality(DOMAIN tokens \ DOMAIN tokens')
          /\ result.op = "cleanupExpired" => result'.n = 0 /\ tokens' = tokens]_vars

\* a sweep has deleted the one stored record
C24_Witness ==
    /\ result.op = "cleanupExpired"
    /\ result.n = 1
    /\ issued # {}
    /\ tokens = << >>

\* a sweep run at the last valid instant of an active token has kept it
C24_WitnessKept ==
    /\ result.op = "cleanupExpired"
    /\ result.n = 0
    /\ \E s \in DOMAIN tokens : tokens[s].isActive /\ tokens[s].expiresAt = now

\* C25: generate for an unknown ownerId fails with NotFound and writes nothing;
\* for a known one it inserts exactly one record with both counters 0 and
\* isActive = true, and the expiresAt, maxSessions and maxMessages it returns
\* are the stored ones: the caller's overrides when given, the defaults otherwise.
C25_GenerateStoresOverrides ==
    [][\A u \in UserArgs, ms \in QuotaArgs, mm \in QuotaArgs, e \in ExpirationArgs :
          generateEphemeralToken(u, ms, mm, e) =>
             IF u \notin Users
             THEN /\ result'.status = "thrown"
                  /\ result'.error = "User not found"
                  /\ tokens' = tokens
             ELSE /\ result'.status = "returned"
                  /\ DOMAIN tokens' = DOMAIN tokens \cup {result'.token}
                  /\ result'.token \notin DOMAIN tokens
                  /\ \A t \in DOMAIN tokens : tokens'[t] = tokens[t]
                  /\ LET rec == tokens'[result'.token]
                         ret == result'.info[1]
                     IN  /\ rec.sessionsUsed = 0 /\ rec.messagesUsed = 0 /\ rec.isActive
                         /\ ret.expiresAt = rec.expiresAt
                         /\ ret.maxSessions = rec.maxSessions
                         /\ ret.maxMessages = rec.maxMessages
                         /\ rec.maxSessions = ParamDefault(ms, MAX_SESSIONS_PER_TOKEN)
                         /\ rec.maxMessages = ParamDefault(mm, MAX_MESSAGES_PER_TOKEN)
                         /\ rec.expiresAt
                               = now + ParamDefault(e, TOKEN_EXPIRATION_MINUTES) * MS_PER_MINUTE]_vars

\* C26: updateUsage, refresh and deactivate on a secret without record fail
\* with NotFound, refresh on an inactive token fails with Deactivated, and an
\* operation that failed has changed no record.
C26_FailuresChangeNothing ==
    [][result'.op \in {"updateUsage", "refresh", "deactivate"} =>
          /\ ~RecordExists(result'.token) =>
                result'.status = "thrown" /\ result'.error = "Token not found"
          /\ (result'.op = "refresh" /\ RecordExists(result'.token)
                 /\ ~StillActive(result'.token)) =>
                result'.status = "thrown" /\ result'.error = "Cannot refresh inactive token"
          /\ result'.status = "thrown" => tokens' = tokens]_vars

\* refresh has refused a deactivated token, which is still stored
C26_Witness ==
    /\ result.op = "refresh"
    /\ result.status = "thrown"
    /\ result.error = "Cannot refresh inactive token"
    /\ RecordExists(result.token)
    /\ ~StillActive(result.token)

\* C27: validate changes nothing: the token store and the session registry are
\* the same before and after, whatever the answer.
C27_ValidateIsPure ==
    [][result'.op = "validate" =>
          /\ tokens' = tokens
          /\ issued' = issued
          /\ sessions' = sessions
          /\ conns' = conns]_vars

\* validate has found a token expired, and the token is still stored, still
\* active and was last used before
C27_Witness ==
    /\ result.op = "validate"
    /\ result.error = "Token expired"
    /\ RecordExists(result.token)
    /\ StillActive(result.token)
    /\ tokens[result.token].lastUsed < now

\* C28: a createSession presenting a token counts the session only once the
\* channel is open and the session registered: sessionsUsed grows by exactly 1
\* with each session registered, and a createSession that registered none (the
\* token was refused, or the open failed) leaves sessionsUsed as it was.
C28_MeteredAfterOpen ==
    [][(result'.op = "create_session" /\ RecordExists(result'.token)) =>
          /\ result'.token \in DOMAIN tokens'
          /\ tokens'[result'.token].sessionsUsed
                = tokens[result'.token].sessionsUsed
                     + Cardinality(DOMAIN sessions' \ DOMAIN sessions)]_vars

\* C30: for every session a sweep evicts, close is invoked on its connection
\* and the record is removed, as closeSession does, whether the session was
\* active or had been marked inactive by onError.
C30_SweepClosesWhatItEvicts ==
    [][result'.op = "cleanupInactiveSessions" =>
          \A sid \in DOMAIN sessions :
             IdleTooLong(sessions[sid]) =>
                /\ sid \notin DOMAIN sessions'
                /\ conns'[sid].closeCalls = conns[sid].closeCalls + 1]_vars

\* C29: no payload is forwarded on a connection after close was invoked on it
\* or after its session left the registry, whatever closeSession, onClosed or
\* a sweep does while a sendMessage is between its session lookup and its send.
C29_NoSendAfterClose ==
    [][\A sid \in SessionIds :
          conns'[sid].forwarded > conns[sid].forwarded =>
             /\ conns[sid].closeCalls = 0
             /\ conns[sid].status = "open"
             /\ sid \in DOMAIN sessions]_vars

\* C31: every record generate creates, whatever numbers the caller passes for
\* maxSessions, maxMessages and expirationMinutes, has expiresAt > createdAt,
\* maxSessions >= 1 and maxMessages >= 1.
C31_GeneratedRecordIsUsable ==
    [][(result'.op = "generate" /\ result'.status = "returned") =>
          LET rec == tokens'[result'.token]
          IN  /\ rec.expiresAt > rec.createdAt
              /\ rec.maxSessions >= 1
              /\ rec.maxMessages >= 1]_vars

\* C32: with the reaper run again and again and the clock advancing, a
\* registered session that sees no further activity is eventually removed,
\* be it active or marked inactive by onError: for every instant t after which
\* the timeout can run out, a session last active at t is removed or active again.
C32_IdleSessionsReclaimed ==
    \A sid \in SessionIds :
        \A t \in {i \in ReaperInstants : \E j \in ReaperInstants : j - i > TIMEOUT_MS} :
            (sid \in DOMAIN sessions /\ sessions[sid].lastActivity = t)
               ~> (sid \notin DOMAIN sessions \/ sessions[sid].lastActivity # t)

\* a sweep has removed a session that onError had marked inactive: its
\* connection was opened and close was never called on it
C32_Witness ==
    /\ result.op = "cleanupInactiveSessions"
    /\ result.n >= 1
    /\ \E sid \in SessionIds \ DOMAIN sessions :
          conns[sid].status = "open" /\ conns[sid].closeCalls = 0

\* the sessions on whose connection a step called close() and close() threw
CloseThrew == {sid \in SessionIds : conns'[sid].closeCalls > conns[sid].closeCalls
                                     /\ conns'[sid].status # "closed"}

\* C33: in a sweep in which closing one idle session's connection fails, that
\* session is removed all the same, and every other idle session is closed
\* and removed.
C33_SweepFailureIsolated ==
    [][(result'.op = "cleanupInactiveSessions" /\ CloseThrew # {}) =>
          \A sid \in DOMAIN sessions :
             IdleTooLong(sessions[sid]) =>
                /\ sid \notin DOMAIN sessions'
                /\ conns'[sid].closeCalls = conns[sid].closeCalls + 1
                /\ sid \notin CloseThrew => conns'[sid].status = "closed"]_vars

\* C34: once onClosed was delivered for a session's connection the session is
\* absent from the registry, also when the callback came before createSession
\* had registered it: no registry entry holds a connection that is closed.
C34_ClosedMeansAbsent ==
    \A sid \in SessionIds : conns[sid].status = "closed" => sid \notin DOMAIN sessions

\* C35: once sessionsUsed of an active, unexpired token has reached
\* maxSessions, every sendMessage presenting it is rejected and forwards and
\* counts nothing; on a registered active session, also one opened with that
\* token, the reason is SessionQuotaExceeded, even with messages left.
C35_SessionQuotaBlocksSend ==
    [][(result'.op = "send_message" /\ RecordExists(result'.token)
           /\ PresentedUsable(result'.token) /\ ~SessionsLeft(result'.token)) =>
          /\ result'.status \in {"403", "404"}
          /\ (result'.status = "404") <=> AbsentOrInactive(result'.sid)
          /\ result'.status = "403" => result'.error = "Session limit exceeded"
          /\ tokens' = tokens
          /\ sessions' = sessions
          /\ conns' = conns]_vars

\* a token with messages left, its sessions used up, has been refused on a
\* session that is registered and active
C35_Witness ==
    /\ result.op = "send_message"
    /\ result.status = "403"
    /\ result.error = "Session limit exceeded"
    /\ RecordExists(result.token)
    /\ MessagesLeft(result.token)
    /\ tokens[result.token].sessionsUsed = tokens[result.token].maxSessions
    /\ result.sid \in DOMAIN sessions
    /\ sessions[result.sid].isActive
    /\ conns[result.sid].forwarded = 0

\* C36: a session registered by createSession(ownerId, secret) with a valid
\* token has the ownerId that the token's record holds.
C36_SessionOwnerIsTokenOwner ==
    [][(result'.op = "create_session" /\ result'.status = "200"
           /\ RecordExists(result'.token)) =>
          sessions'[result'.sid].userId = tokens[result'.token].userId]_vars

\* C37: at every instant, now = expiresAt of the cached record included,
\* isValid answers true exactly when getInfo returns a record: asked one after
\* the other at the same instant, with a storage that takes the calls, the
\* two agree.
C37_ViewsAgree ==
    [][(result.op = "getTokenInfo" /\ result.warned = {}
           /\ result'.op = "isTokenValid" /\ result'.warned = {}) =>
          (result'.valid <=> result.info # <<>>)]_vars

\* C38: every send_message that answers 200 has handed its payload to the
\* session's connection exactly once and has stamped lastActivity, whatever
\* messageType the request carried; and every send_message that meters a
\* message unit either hands the payload over or answers with a failure.
C38_SuccessMeansForwarded ==
    [][(result'.op = "send_message") =>
          LET sid == result'.sid IN
          /\ result'.status = "200" =>
                /\ conns'[sid].forwarded = conns[sid].forwarded + 1
                /\ sessions'[sid].lastActivity = now
          /\ tokens' # tokens =>
                \/ conns'[sid].forwarded = conns[sid].forwarded + 1
                \/ result'.status = "500"]_vars

\* C39: once destroy() has been called on the manager, no renewal timer is
\* pending, refreshToken is not called again and no renewal callback of the
\* manager writes the cache again, whatever was in flight when destroy() ran.
C39_DestroyedStaysQuiet ==
    [][manager.destroyed =>
          /\ manager'.timers = {}
          /\ ~(result'.op = "renewal" /\ result'.status = "awaiting")
          /\ result'.op = "renewal" => localStorage' = localStorage]_vars

\* C40: the sessionsUsed and messagesUsed of a stored token never decrease,
\* and close_session, the reaper's sweep, the provider's close and error
\* callbacks, refresh and deactivate leave both as they are: a unit of quota
\* that was used is never given back.
C40_UsageNeverGivenBack ==
    [][\A s \in DOMAIN tokens \cap DOMAIN tokens' :
          /\ tokens'[s].sessionsUsed >= tokens[s].sessionsUsed
          /\ tokens'[s].messagesUsed >= tokens[s].messagesUsed
          /\ result'.op \in {"close_session", "cleanupInactiveSessions", "onclose", "onerror",
                             "refresh", "deactivate"} =>
                /\ tokens'[s].sessionsUsed = tokens[s].sessionsUsed
                /\ tokens'[s].messagesUsed = tokens[s].messagesUsed]_vars

\* ----------------------------------------------------------- initial state
Init ==
    /\ now = 0
    /\ tokens = << >>
    /\ issued = {}
    /\ sessions = << >>
    /\ conns = [sid \in SessionIds |-> NoConnection]
    /\ result = Result("init", "", "", "", "")
    /\ callers = [c \in Callers |-> Idle]
    /\ ledger = [s \in Secrets |-> [sessions |-> 0, messages |-> 0, reruns |-> 0]]
    /\ window = FALSE
    /\ localStorage = [k \in StorageKeys |-> <<>>]
    /\ manager = NoManager

\* ------------------------------------------- the token service on its own
Generate ==
    /\ \E u \in UserArgs :
          IF u \in Users
          THEN \E ms \in QuotaArgs, mm \in QuotaArgs, e \in ExpirationArgs :
                  generateEphemeralToken(u, ms, mm, e)
          ELSE generateEphemeralToken(u, <<>>, <<>>, <<>>)
    /\ UNCHANGED <<now, sessionVars, raceVars, clientVars>>

ValidateToken == (\E s \in Secrets : Validate(s)) /\ UNCHANGED <<now, sessionVars, raceVars, clientVars>>

UpdateUsage ==
    /\ \E s \in Secrets, i \in IncrementArgs, m \in IncrementArgs : updateTokenUsage(s, i, m)
    /\ UNCHANGED <<now, sessionVars, raceVars, clientVars>>

Refresh ==
    /\ \E s \in Secrets, a \in AdditionalArgs : refreshEphemeralToken(s, a)
    /\ UNCHANGED <<now, sessionVars, raceVars, clientVars>>

Deactivate == (\E s \in Secrets : deactivateEphemeralToken(s)) /\ UNCHANGED <<now, sessionVars, raceVars, clientVars>>

CleanupExpired == cleanupExpiredTokens /\ UNCHANGED <<now, sessionVars, raceVars, clientVars>>

AdvanceClock == Tick(Instants)

TokenNext ==
    \/ Generate
    \/ ValidateToken
    \/ UpdateUsage
    \/ Refresh
    \/ Deactivate
    \/ CleanupExpired
    \/ AdvanceClock

SpecTokens == Init /\ [][TokenNext]_vars

\* ------------------------------------ the token service behind the proxy
\* tokens as the client hook requests them, and as a caller may override them
PGenerate ==
    /\ \E u \in Users, q \in ProxyQuotaArgs :
          generateEphemeralToken(u, q, q, IF q = <<>> THEN <<>> ELSE <<1>>)
    /\ UNCHANGED <<now, sessionVars, raceVars, clientVars>>

PTick == Tick(ProxyInstants)

CreateSession ==
    /\ \E u \in {"u1", ""}, tok \in TokenArgs, connects \in BOOLEAN :
          create_session(u, tok, connects)
    /\ UNCHANGED <<now, raceVars, clientVars>>

SendMessage ==
    /\ \E sid \in SessionIds \cup {""}, mt \in {"text", "audio", "video"},
          tok \in TokenArgs, sends \in BOOLEAN :
          send_message(sid, mt, tok, sends)
    /\ UNCHANGED <<now, raceVars, clientVars>>

CloseSession ==
    /\ \E sid \in SessionIds \cup {""}, closes \in BOOLEAN : close_session(sid, closes)
    /\ UNCHANGED <<now, raceVars, clientVars>>

Next ==
    \/ PGenerate
    \/ Deactivate
    \/ CleanupExpired
    \/ CreateSession
    \/ SendMessage
    \/ CloseSession
    \/ PTick

Spec == Init /\ [][Next]_vars

\* ------------------------------- the registry, the callbacks and the reaper
\* sessions are opened without a token; messages may present the one token,
\* issued for one message with the default session quota and lifetime

SCreateSession ==
    /\ \E connects \in BOOLEAN : create_session("u1", <<>>, connects)
    /\ UNCHANGED <<now, raceVars, clientVars>>

SCloseSession ==
    /\ \E sid \in SessionIds, closes \in BOOLEAN : close_session(sid, closes)
    /\ UNCHANGED <<now, raceVars, clientVars>>

OnMessage == (\E sid \in SessionIds : onmessage(sid)) /\ UNCHANGED <<now, raceVars, clientVars>>

OnError == (\E sid \in SessionIds : onerror(sid)) /\ UNCHANGED <<now, raceVars, clientVars>>

OnClose == (\E sid \in SessionIds : onclose(sid)) /\ UNCHANGED <<now, raceVars, clientVars>>

\* setInterval(cleanupInactiveSessions, 5 * 60 * 1000)
Sweep ==
    /\ \E throwing \in SUBSET SessionIds : cleanupInactiveSessions(throwing)
    /\ UNCHANGED <<now, raceVars, clientVars>>

STick == Tick(SweepInstants)

SessionNext ==
    \/ /\ \E u \in {"u1"} : generateEphemeralToken(u, <<>>, <<1>>, <<>>)
       /\ UNCHANGED <<now, sessionVars, raceVars, clientVars>>
    \/ SCreateSession
    \/ /\ \E sid \in SessionIds, tok \in Opt(Secrets), sends \in BOOLEAN :
             send_message(sid, "text", tok, sends)
       /\ UNCHANGED <<now, raceVars, clientVars>>
    \/ SCloseSession
    \/ /\ \E sid \in SessionIds \cup {""} : session_status(sid)
       /\ UNCHANGED <<now, raceVars, clientVars>>
    \/ list_sessions /\ UNCHANGED <<now, raceVars, clientVars>>
    \/ OnMessage
    \/ OnError
    \/ OnClose
    \/ Sweep
    \/ STick

SpecSessions == Init /\ [][SessionNext]_vars

\* ------------------------------------------------- the periodic reaper
\* setInterval runs cleanupInactiveSessions again and again, and time passes;
\* sessions are opened, used and closed without a token

PTickReaper == Tick(ReaperInstants)

ReaperNext ==
    \/ SCreateSession
    \/ /\ \E sid \in SessionIds, sends \in BOOLEAN : send_message(sid, "text", <<>>, sends)
       /\ UNCHANGED <<now, raceVars, clientVars>>
    \/ SCloseSession
    \/ OnMessage
    \/ OnError
    \/ OnClose
    \/ Sweep
    \/ PTickReaper

SpecReaper == Init /\ [][ReaperNext]_vars /\ WF_vars(Sweep) /\ WF_vars(PTickReaper)

\* ------------------------------------------------- the client token cache
\* the page is rendered without a window first, then runs in the browser
Hydrate ==
    /\ ~window
    /\ window' = TRUE
    /\ result' = Result("hydrate", "", "", "", "")
    /\ UNCHANGED <<now, tokenVars, sessionVars, raceVars, localStorage, manager>>

\* something other than TokenStorage writes the info item
Tamper ==
    /\ window
    /\ \E text \in CorruptTexts :
          localStorage' = setItem(localStorage, TOKEN_INFO_KEY, text)
    /\ result' = Result("tamper", "", "", "", "")
    /\ UNCHANGED <<now, tokenVars, sessionVars, raceVars, window, manager>>

StoreToken ==
    /\ \E info \in TokenInfos, throwsAt \in ThrowsAt : storeToken(info, throwsAt)
    /\ UNCHANGED <<now, tokenVars, sessionVars, raceVars, window, manager>>

GetToken ==
    /\ \E throws \in BOOLEAN : getToken(throws)
    /\ UNCHANGED <<now, tokenVars, sessionVars, raceVars, window, manager>>

GetTokenInfo ==
    /\ \E throws \in BOOLEAN, clearThrowsAt \in ThrowsAt : getTokenInfo(throws, clearThrowsAt)
    /\ UNCHANGED <<now, tokenVars, sessionVars, raceVars, window, manager>>

ClearToken ==
    /\ \E throwsAt \in ThrowsAt : clearToken(throwsAt)
    /\ UNCHANGED <<now, tokenVars, sessionVars, raceVars, window, manager>>

IsTokenValid ==
    /\ \E throws \in BOOLEAN, clearThrowsAt \in ThrowsAt : isTokenValid(throws, clearThrowsAt)
    /\ UNCHANGED <<now, tokenVars, sessionVars, raceVars, window, manager>>

CTick == Tick(Instants)

CacheNext ==
    \/ Hydrate
    \/ Tamper
    \/ StoreToken
    \/ GetToken
    \/ GetTokenInfo
    \/ ClearToken
    \/ IsTokenValid
    \/ CTick

SpecCache == Init /\ [][CacheNext]_vars

\* ------------------------------------------------------ the token manager
\* one ensureValidToken at a time; any call on the storage may throw
MEnsureBegin ==
    /\ \E throws \in BOOLEAN, clearThrowsAt \in ThrowsAt : EnsureBegin(throws, clearThrowsAt)
    /\ UNCHANGED <<now, tokenVars, sessionVars, raceVars, window>>

MEnsureResolve ==
    /\ \E info \in GeneratedInfos, throwsAt \in ThrowsAt : EnsureResolve(info, throwsAt)
    /\ UNCHANGED <<now, tokenVars, sessionVars, raceVars, window>>

MEnsureReject == EnsureReject /\ UNCHANGED <<now, tokenVars, sessionVars, raceVars, window>>

MTimerFires ==
    /\ \E id \in 1..MaxTimeouts, throws \in BOOLEAN : TimerFires(id, throws)
    /\ UNCHANGED <<now, tokenVars, sessionVars, raceVars, window>>

MRenewResolve ==
    /\ \E id \in 1..MaxTimeouts, throwsAt \in ThrowsAt : RenewResolve(id, throwsAt)
    /\ UNCHANGED <<now, tokenVars, sessionVars, raceVars, window>>

MRenewReject ==
    /\ \E id \in 1..MaxTimeouts, throwsAt \in ThrowsAt : RenewReject(id, throwsAt)
    /\ UNCHANGED <<now, tokenVars, sessionVars, raceVars, window>>

MTick == Tick(ManagerInstants)

ManagerNext ==
    \/ Hydrate
    \/ MEnsureBegin
    \/ MEnsureResolve
    \/ MEnsureReject
    \/ MTimerFires
    \/ MRenewResolve
    \/ MRenewReject
    \/ MTick

SpecManager == Init /\ [][ManagerNext]_vars

\* ------------------------------------------- the token manager, destroyed
\* the owner of the manager calls destroy() when it unmounts, whatever the
\* manager is waiting for, and calls nothing on it afterwards; promises that
\* were pending settle when they settle
DestroyNext ==
    \/ Hydrate
    \/ ~manager.destroyed /\ MEnsureBegin
    \/ MEnsureResolve
    \/ MEnsureReject
    \/ MTimerFires
    \/ MRenewResolve
    \/ MRenewReject
    \/ /\ ~manager.destroyed
       /\ destroy
       /\ UNCHANGED <<now, tokenVars, sessionVars, raceVars, window>>
    \/ MTick

SpecDestroy == Init /\ [][DestroyNext]_vars

\* ---------------------------------------------- the proxy under concurrency
\* tokens of quota 1, so that MaxCallers requests can overrun the quota
RGenerate ==
    /\ \E u \in {"u1"} : generateEphemeralToken(u, <<1>>, <<1>>, <<>>)
    /\ UNCHANGED <<now, sessionVars, raceVars, clientVars>>

RMutationRead == \E c \in Callers : MutationRead(c)
RMutationCommit == \E c \in Callers : MutationCommit(c)

RaceNext ==
    \/ RGenerate
    \/ \E c \in Callers, tok \in Opt(Secrets) : BeginCreate(c, "u1", tok)
    \/ \E c \in Callers, sid \in SessionIds : BeginSend(c, sid)
    \/ \E c \in Callers, tok \in Opt(Secrets) : ValidateSend(c, tok)
    \/ RMutationRead
    \/ RMutationCommit
    \/ \E c \in Callers, connects \in BOOLEAN : FinishCreate(c, connects)
    \/ \E c \in Callers, mt \in {"text", "video"}, sends \in BOOLEAN : FinishSend(c, mt, sends)

SpecRace == Init /\ [][RaceNext]_vars

\* ------------------------------ a message in flight while sessions are closed
\* one send_message at a time goes through its awaits; sessions are opened
\* without a token and closed by close_session, by the provider and by the reaper
ClosingNext ==
    \/ RGenerate
    \/ SCreateSession
    \/ \E sid \in SessionIds : BeginSend(1, sid)
    \/ \E tok \in Opt(Secrets) : ValidateSend(1, tok)
    \/ MutationRead(1)
    \/ MutationCommit(1)
    \/ \E mt \in {"text", "audio"}, sends \in BOOLEAN : FinishSend(1, mt, sends)
    \/ SCloseSession
    \/ OnClose
    \/ Sweep
    \/ STick

SpecClosing == Init /\ [][ClosingNext]_vars

\* ------------------------------ callbacks while a session is being created
\* create_session requests without a token, split at the await of the
\* connection; the provider calls onerror and onclose when it likes
OpeningNext ==
    \/ \E c \in Callers : BeginCreate(c, "u1", <<>>)
    \/ \E c \in Callers, connects \in BOOLEAN : OpenConnection(c, connects)
    \/ \E c \in Callers : RegisterSession(c)
    \/ OnError
    \/ OnClose
    \/ SCloseSession

SpecOpening == Init /\ [][OpeningNext]_vars

\* ------------------------------------------- the ledger under concurrency
LedgerNext ==
    \/ /\ \E u \in {"u1"} : generateEphemeralToken(u, <<>>, <<>>, <<>>)
       /\ UNCHANGED <<now, sessionVars, raceVars, clientVars>>
    \/ \E c \in Callers, s \in Secrets, inc \in LedgerIncrements :
           BeginUpdate(c, s, inc[1], inc[2])
    \/ RMutationRead
    \/ RMutationCommit

SpecLedger == Init /\ [][LedgerNext]_vars

====
